---- MODULE Spec2Model ----
(***************************************************************************)
(* A/B-testing chatbot (cb_superlinked): the query-resolution pipeline.    *)
(*                                                                         *)
(* The model follows the Python sources: data_processing.py (the record    *)
(* store), intent_router.py (the deterministic intents), query.py (the     *)
(* query engine over the Superlinked index), analytics.py (the analysis)   *)
(* and chatbot_v2.py (generate_response).  Python strings are TLA+ strings *)
(* and the string functions (lower, strip, `in`, split, join, the regular  *)
(* expressions) are computed character by character.                       *)
(***************************************************************************)
EXTENDS Integers, Sequences, FiniteSets, TLC

VARIABLES
    data,         \* ABTestingDataProcessor.data of the chatbot: the rows loaded at startup
    disk,         \* the rows of the dataset file (settings.dataset_path) as it is now
    cache,        \* ABTestingChatbotV2._ab_analysis_cache
    req,          \* the call in progress: operation and arguments
    res,          \* what that call returned
    peer          \* a second chatbot built in the same process: its data and its _ab_analysis_cache

vars == <<data, disk, cache, req, res, peer>>

----------------------------------------------------------------------------
(* Bounds of the model.                                                    *)

\* Longest dataset (rows of the CSV file).
MaxRows == 3
\* Most words in a generated query text.
MaxWords == 2

----------------------------------------------------------------------------
(* Python strings.                                                         *)

UpperChars == "ABCDEFGHIJKLMNOPQRSTUVWXYZÁÉÍÓÚÑ"
LowerChars == "abcdefghijklmnopqrstuvwxyzáéíóúñ"
Digits == "0123456789"
\* What str.strip() removes and the pattern class \s matches: blank, tab, newline.
Whitespace == " \t\n"

\* s[i] of Python, 1-based.
CharAt(s, i) == SubSeq(s, i, i)

\* The characters of a string, as a set.
CharsOf(chars) == { CharAt(chars, i) : i \in 1..Len(chars) }

UpperSet == CharsOf(UpperChars)
LowerSet == CharsOf(LowerChars)
DigitSet == CharsOf(Digits)
SpaceSet == CharsOf(Whitespace)

\* Each upper-case letter's lower-case letter, and the reverse.
LowerOf == [c \in UpperSet |->
               CharAt(LowerChars, CHOOSE i \in 1..Len(UpperChars) : CharAt(UpperChars, i) = c)]
UpperOf == [c \in LowerSet |->
               CharAt(UpperChars, CHOOSE i \in 1..Len(LowerChars) : CharAt(LowerChars, i) = c)]

LowerChar(c) == IF c \in UpperSet THEN LowerOf[c] ELSE c

UpperChar(c) == IF c \in LowerSet THEN UpperOf[c] ELSE c

IsDigit(c) == c \in DigitSet

IsSpace(c) == c \in SpaceSet

\* str.lower()
RECURSIVE lower(_)
lower(s) ==
    IF Len(s) = 0 THEN ""
    ELSE LowerChar(CharAt(s, 1)) \o lower(SubSeq(s, 2, Len(s)))

\* A capitalize() that leaves the string as it is: the difference shows in
\* the region value of the extracted filters.
capitalize_unchanged(s) == s

\* str.capitalize(): first character upper case, the rest lower case.
capitalize(s) ==
    IF Len(s) = 0 THEN ""
    ELSE UpperChar(CharAt(s, 1)) \o lower(SubSeq(s, 2, Len(s)))

\* str.strip()
RECURSIVE lstrip(_)
lstrip(s) ==
    IF Len(s) > 0 /\ IsSpace(CharAt(s, 1)) THEN lstrip(SubSeq(s, 2, Len(s))) ELSE s

RECURSIVE rstrip(_)
rstrip(s) ==
    IF Len(s) > 0 /\ IsSpace(CharAt(s, Len(s))) THEN rstrip(SubSeq(s, 1, Len(s) - 1)) ELSE s

strip(s) == lstrip(rstrip(s))

\* `sub` occurs in s starting at position i.
OccursAt(s, sub, i) ==
    /\ i >= 1
    /\ i + Len(sub) - 1 <= Len(s)
    /\ SubSeq(s, i, i + Len(sub) - 1) = sub

\* Python's `sub in s`.
Contains(s, sub) == \E i \in 1..(Len(s) + 1) : OccursAt(s, sub, i)

\* any(k in s for k in keywords)
ContainsAny(s, keywords) == \E k \in 1..Len(keywords) : Contains(s, keywords[k])

\* str.startswith
StartsWith(s, prefix) == OccursAt(s, prefix, 1)

\* str.split(sep) for a one-character separator: the list of the pieces.
RECURSIVE split(_, _)
split(s, sep) ==
    IF \E i \in 1..Len(s) : CharAt(s, i) = sep
    THEN LET i == CHOOSE i \in 1..Len(s) :
                      /\ CharAt(s, i) = sep
                      /\ \A j \in 1..(i - 1) : CharAt(s, j) /= sep
         IN <<SubSeq(s, 1, i - 1)>> \o split(SubSeq(s, i + 1, Len(s)), sep)
    ELSE <<s>>

\* sep.join(parts)
RECURSIVE join(_, _)
join(sep, parts) ==
    IF Len(parts) = 0 THEN ""
    ELSE IF Len(parts) = 1 THEN parts[1]
    ELSE parts[1] \o sep \o join(sep, Tail(parts))

\* str(n) for an integer n >= 0.
RECURSIVE str(_)
str(n) ==
    IF n < 10 THEN CharAt(Digits, n + 1)
    ELSE str(n \div 10) \o CharAt(Digits, (n % 10) + 1)

\* Three digits of n, zero padded: a group of the thousands format.
Pad3(n) == CharAt(Digits, (n \div 100) + 1) \o CharAt(Digits, ((n \div 10) % 10) + 1)
           \o CharAt(Digits, (n % 10) + 1)

\* f"{n:,}" for an integer n >= 0: decimal digits with a comma every three.
RECURSIVE FormatThousands(_)
FormatThousands(n) ==
    IF n < 1000 THEN str(n)
    ELSE FormatThousands(n \div 1000) \o "," \o Pad3(n % 1000)

\* f"{x:,.2f}" for a float x whose value is the integer n >= 0.
FormatMoney(n) == FormatThousands(n) \o ".00"

\* f"{x:.2f}" for a float x whose value is the integer n >= 0.
FormatFixed2(n) == str(n) \o ".00"

----------------------------------------------------------------------------
(* The dataset: one row per store, the columns of the CSV file.            *)

Row(e, t, r, k, u, c, v, cr) ==
    [experimento |-> e, tienda_id |-> t, region |-> r, tipo_tienda |-> k,
     usuarios |-> u, conversiones |-> c, revenue |-> v, conversion_rate |-> cr]

\* The rows a dataset is drawn from.  Two rows tie on usuarios, conversiones,
\* revenue and conversion_rate; one control row and one experiment row have
\* no conversion; one sum of usuarios needs a thousands separator.
RowPool ==
    { Row("Control",       "T_Control_001",       "Este",  "Mall",   100,  10, 50, 10),
      Row("Control",       "T_Control_002",       "Oeste", "Street", 1200, 0,  0,  0),
      Row("Experimento_A", "T_Experimento_A_001", "Este",  "Mall",   100,  10, 50, 10),
      Row("Experimento_B", "T_Experimento_B_001", "Este",  "Mall",   200,  0,  10, 0) }

\* The sequences of n distinct rows of the pool.
RowSeqs(n) ==
    { s \in [1..n -> RowPool] : \A i, j \in 1..n : i /= j => s[i] /= s[j] }

\* The datasets: the CSV files of 1..MaxRows distinct rows, in file order.
Datasets == UNION { RowSeqs(n) : n \in 1..MaxRows }

\* The columns of the data frame.
Columns ==
    {"experimento", "tienda_id", "region", "tipo_tienda",
     "usuarios", "conversiones", "revenue", "conversion_rate"}

\* frame[frame[column] == value]: the rows whose column equals value, in order.
WhereEq(rows, column, value) == SelectSeq(rows, LAMBDA r : r[column] = value)

\* frame[frame[column] != value]
WhereNe(rows, column, value) == SelectSeq(rows, LAMBDA r : r[column] /= value)

\* frame[column].sum()
RECURSIVE ColumnSum(_, _)
ColumnSum(rows, column) ==
    IF Len(rows) = 0 THEN 0
    ELSE rows[1][column] + ColumnSum(Tail(rows), column)

\* frame[column].unique(): the distinct values in order of first appearance.
RECURSIVE Unique(_, _)
Unique(rows, column) ==
    IF Len(rows) = 0 THEN <<>>
    ELSE LET before == Unique(SubSeq(rows, 1, Len(rows) - 1), column)
             v == rows[Len(rows)][column]
         IN IF \E i \in 1..Len(before) : before[i] = v THEN before
            ELSE Append(before, v)

\* frame[column].mean() as the exact fraction sum / count (count 0: NaN).
ColumnMean(rows, column) == [num |-> ColumnSum(rows, column), den |-> Len(rows)]

\* ABTestingDataProcessor.load_data: the rows of the file.
load_data(file) == file

\* ABTestingDataProcessor.prepare_documents: one document per row, its id
\* "<experimento>_<tienda_id>_<row index>" with the 0-based row index.
prepare_documents(rows) ==
    [i \in 1..Len(rows) |->
        [id |-> rows[i].experimento \o "_" \o rows[i].tienda_id \o "_" \o str(i - 1),
         row |-> rows[i]]]

\* ABTestingDataProcessor.get_data_summary
get_data_summary(rows) ==
    [total_records |-> Len(rows),
     experiments |-> Unique(rows, "experimento"),
     regions |-> Unique(rows, "region"),
     store_types |-> Unique(rows, "tipo_tienda"),
     total_users |-> ColumnSum(rows, "usuarios"),
     total_conversions |-> ColumnSum(rows, "conversiones"),
     total_revenue |-> ColumnSum(rows, "revenue"),
     avg_conversion_rate |-> ColumnMean(rows, "conversion_rate")]

----------------------------------------------------------------------------
(* intent_router.py: the intents and their classification.                 *)

\* Optional[str]: None is the empty sequence, a string s is <<s>>.
None == <<>>
Some(s) == <<s>>

\* IntentRouter._define_intents: the registered intents, in the order of the
\* list.  The regular expressions of an intent are PatternMatches below.
intents ==
    << [type |-> "greeting",
        keywords |-> <<"hola", "hello", "hi", "buenos días", "buenas tardes">>,
        handler |-> "handle_greeting", priority |-> 3],
       [type |-> "count_query",
        keywords |-> <<"cuántos", "cuántas", "cantidad", "número", "total", "how many", "count">>,
        handler |-> "handle_count_query", priority |-> 2],
       [type |-> "data_info",
        keywords |-> <<"qué datos", "qué información", "datos", "información", "tenemos",
                       "disponibles">>,
        handler |-> "handle_data_info", priority |-> 1],
       [type |-> "store_id_query",
        keywords |-> <<"T_Control", "T_Experimento", "tienda id", "store id">>,
        handler |-> "handle_store_id_query", priority |-> 3] >>

\* The intent classify_intent builds when nothing matches.
UnknownIntent ==
    [type |-> "unknown", keywords |-> <<>>, handler |-> "handle_unknown", priority |-> 0]

\* The pattern r"^(hola|hello|hi|buenos días|buenas tardes)[\s\.\!]*$": one of
\* the greetings, then only white space, dots and exclamation marks.
GreetingPattern(s) ==
    \E g \in {"hola", "hello", "hi", "buenos días", "buenas tardes"} :
        /\ StartsWith(s, g)
        /\ \A i \in (Len(g) + 1)..Len(s) :
               IsSpace(CharAt(s, i)) \/ CharAt(s, i) \in {".", "!"}

\* The length of the match of r"T_(Control|Experimento_[ABC])_\d{3}" at
\* position i of s, 0 when it does not match there; ignoreCase is re.IGNORECASE.
StoreIdLenAt(s, i, ignoreCase) ==
    LET Fold(x) == IF ignoreCase THEN lower(x) ELSE x
        Lit(lit, at) == /\ at + Len(lit) - 1 <= Len(s)
                        /\ Fold(SubSeq(s, at, at + Len(lit) - 1)) = Fold(lit)
        ThreeDigits(at) == /\ at + 2 <= Len(s)
                           /\ \A k \in at..(at + 2) : IsDigit(CharAt(s, k))
    IN IF Lit("T_Control_", i) /\ ThreeDigits(i + 10) THEN 13
       ELSE IF /\ Lit("T_Experimento_", i)
               /\ \E x \in {"A", "B", "C"} : Lit(x, i + 14)
               /\ Lit("_", i + 15)
               /\ ThreeDigits(i + 16) THEN 19
       ELSE 0

\* re.search(r"T_(Control|Experimento_[ABC])_\d{3}", s): the pattern matches somewhere.
StoreIdPattern(s, ignoreCase) == \E i \in 1..Len(s) : StoreIdLenAt(s, i, ignoreCase) > 0

\* The pattern r".*(tienda|store).*id.*": "tienda" or "store", and "id" after it.
StoreWordThenId(s) ==
    \E w \in {"tienda", "store"} : \E i \in 1..Len(s) :
        /\ OccursAt(s, w, i)
        /\ \E j \in (i + Len(w))..Len(s) : OccursAt(s, "id", j)

\* The pattern r".*datos.*de.*T_.*" under re.IGNORECASE: "datos", then "de",
\* then "t_", each after the end of the one before.
DatosDeStore(s) ==
    \E i \in 1..Len(s) :
        /\ OccursAt(s, "datos", i)
        /\ \E j \in (i + 5)..Len(s) :
               /\ OccursAt(s, "de", j)
               /\ \E k \in (j + 2)..Len(s) : OccursAt(s, "t_", k)

\* any(re.search(pattern, query_lower, re.IGNORECASE) for pattern in intent.patterns).
\* The text has no line break (one console line), so ".*" spans it whole.
PatternMatches(type, s) ==
    LET t == lower(s)
    IN CASE type = "greeting" -> GreetingPattern(t)
         [] type = "count_query" ->
               \/ ContainsAny(t, <<"cuántos", "cuántas", "cantidad", "número", "total">>)
               \/ ContainsAny(t, <<"how many", "count of">>)
         [] type = "data_info" ->
               \/ ContainsAny(t, <<"qué datos", "qué información", "datos disponibles">>)
               \/ ContainsAny(t, <<"what data", "available data">>)
         [] type = "store_id_query" ->
               \/ StoreIdPattern(t, TRUE)
               \/ StoreWordThenId(t)
               \/ DatosDeStore(t)
         [] OTHER -> FALSE

\* any(keyword in query_lower for keyword in intent.keywords)
KeywordMatches(intent, s) == ContainsAny(s, intent.keywords)

\* sorted(self.intents, key=lambda x: x.priority, reverse=True): descending
\* priority, intents of equal priority in the order of the list (stable).
RECURSIVE SortedByPriority(_, _)
SortedByPriority(list, p) ==
    IF p < 0 THEN <<>>
    ELSE SelectSeq(list, LAMBDA x : x.priority = p) \o SortedByPriority(list, p - 1)

\* The highest priority of a list of intents.
TopPriority(list) ==
    CHOOSE p \in {list[i].priority : i \in 1..Len(list)} :
        \A i \in 1..Len(list) : list[i].priority <= p

\* A classify_intent of one loop, which looks at the patterns and then at the
\* keywords of each intent before it goes to the next: the property of the
\* two loops of the code must tell the difference.
classify_intent_one_loop(query) ==
    LET query_lower == strip(lower(query))
        sorted == SortedByPriority(intents, TopPriority(intents))
        matching == SelectSeq(sorted, LAMBDA x : \/ PatternMatches(x.type, query_lower)
                                                  \/ KeywordMatches(x, query_lower))
    IN IF Len(matching) > 0 THEN matching[1] ELSE UnknownIntent

\* IntentRouter.classify_intent: a first loop over the sorted intents looks at
\* the patterns only, a second loop at the keywords only.
classify_intent(query) ==
    LET query_lower == strip(lower(query))
        sorted == SortedByPriority(intents, TopPriority(intents))
        byPattern == SelectSeq(sorted, LAMBDA x : PatternMatches(x.type, query_lower))
        byKeyword == SelectSeq(sorted, LAMBDA x : KeywordMatches(x, query_lower))
    IN IF Len(byPattern) > 0 THEN byPattern[1]
       ELSE IF Len(byKeyword) > 0 THEN byKeyword[1]
       ELSE UnknownIntent

----------------------------------------------------------------------------
(* intent_router.py: the handlers.  Each returns Optional[str].            *)

NL == "\n"

\* The bullet character U+2022 that starts a line of an answer, written as the
\* middle dot: the strings of the module are Latin-1.
Bullet == "·"

\* The experiments _count_users reports one by one.
NamedExperiments == <<"Experimento_A", "Experimento_B", "Experimento_C">>

\* Series.value_counts() of the experimento column of the rows: the pairs
\* <<value, count>> by descending count.  pandas sorts the counts with its
\* default sort, which does not fix the order of equal counts: every order
\* of the distinct values with non-increasing counts is a possible result.
value_counts(rows) ==
    LET values == Unique(rows, "experimento")
        n == Len(values)
        Count(v) == Len(WhereEq(rows, "experimento", v))
        orders == { o \in [1..n -> 1..n] :
                      /\ \A i, j \in 1..n : i /= j => o[i] /= o[j]
                      /\ \A i \in 1..(n - 1) : Count(values[o[i]]) >= Count(values[o[i + 1]]) }
    IN { [i \in 1..n |-> <<values[o[i]], Count(values[o[i]])>>] : o \in orders }

\* A handle_greeting that answers below 15 characters only.
handle_greeting_below(query) ==
    IF Len(strip(query)) < 15
    THEN Some("¡Hola! Estoy aquí para ayudarte con el análisis de AB Testing. "
              \o "¿Qué te gustaría saber sobre los datos?")
    ELSE None

\* IntentRouter.handle_greeting
handle_greeting(query) ==
    IF Len(strip(query)) <= 15
    THEN Some("¡Hola! Estoy aquí para ayudarte con el análisis de AB Testing. "
              \o "¿Qué te gustaría saber sobre los datos?")
    ELSE None

\* A _count_users that answers the control question with the users of the whole
\* dataset, where the code sums over the control rows.
_count_users_of_dataset(query_lower, summary, rows) ==
    "Las tiendas del grupo Control tienen un total de "
    \o FormatThousands(summary.total_users) \o " usuarios."

\* IntentRouter._count_users
_count_users(query_lower, summary, rows) ==
    IF Contains(query_lower, "control")
    THEN "Las tiendas del grupo Control tienen un total de "
         \o FormatThousands(ColumnSum(WhereEq(rows, "experimento", "Control"), "usuarios"))
         \o " usuarios."
    ELSE IF ContainsAny(query_lower, <<"experimento a", "experimento_a", "experiment a">>)
    THEN LET exp_data == WhereEq(rows, "experimento", "Experimento_A")
         IN "El Experimento A tiene " \o str(Len(exp_data)) \o " tiendas con un total de "
            \o FormatThousands(ColumnSum(exp_data, "usuarios")) \o " usuarios."
    ELSE IF ContainsAny(query_lower, <<"experimento", "experiment", "variante">>)
    THEN LET Line(exp) ==
                 Bullet \o " " \o exp \o ": "
                 \o FormatThousands(ColumnSum(WhereEq(rows, "experimento", exp), "usuarios"))
                 \o " usuarios" \o NL
         IN strip("Total de usuarios por experimento:" \o NL
                  \o Line(NamedExperiments[1]) \o Line(NamedExperiments[2])
                  \o Line(NamedExperiments[3]))
    ELSE "En total hay " \o FormatThousands(summary.total_users)
         \o " usuarios en todo el dataset."

\* IntentRouter._count_conversions
_count_conversions(query_lower, summary, rows) ==
    IF Contains(query_lower, "control")
    THEN "El grupo Control tiene un total de "
         \o FormatThousands(ColumnSum(WhereEq(rows, "experimento", "Control"), "conversiones"))
         \o " conversiones."
    ELSE "En total hay " \o FormatThousands(summary.total_conversions)
         \o " conversiones en todo el dataset."

\* The lines "<bullet> <experimento>: <count> tiendas\n" of _count_stores.
RECURSIVE StoreCountLines(_)
StoreCountLines(counts) ==
    IF Len(counts) = 0 THEN ""
    ELSE Bullet \o " " \o counts[1][1] \o ": " \o str(counts[1][2]) \o " tiendas" \o NL
         \o StoreCountLines(Tail(counts))

\* IntentRouter._count_stores; exp_counts is the value_counts() it computes.
_count_stores(query_lower, summary, rows, exp_counts) ==
    IF Contains(query_lower, "control")
    THEN "Hay " \o str(Len(WhereEq(rows, "experimento", "Control")))
         \o " tiendas en el grupo Control."
    ELSE IF ContainsAny(query_lower, <<"experimento a", "experimento_a", "experiment a">>)
    THEN "El Experimento A tiene " \o str(Len(WhereEq(rows, "experimento", "Experimento_A")))
         \o " tiendas."
    ELSE IF Contains(query_lower, "experimento")
    THEN strip("Cantidad de tiendas por experimento:" \o NL \o StoreCountLines(exp_counts))
    ELSE "El dataset contiene " \o str(summary.total_records) \o " tiendas en total."

\* IntentRouter._count_regions
_count_regions(query_lower, summary) ==
    "Hay " \o str(Len(summary.regions)) \o " regiones en el dataset: "
    \o join(", ", summary.regions)

\* IntentRouter._count_store_types
_count_store_types(query_lower, summary) ==
    "Hay " \o str(Len(summary.store_types)) \o " tipos de tienda: "
    \o join(", ", summary.store_types)

\* IntentRouter._count_stores_and_users
_count_stores_and_users(query_lower, summary, rows) ==
    LET Of(exp, label) ==
            LET exp_data == WhereEq(rows, "experimento", exp)
            IN label \o " tiene " \o str(Len(exp_data)) \o " tiendas con un total de "
               \o FormatThousands(ColumnSum(exp_data, "usuarios")) \o " usuarios."
    IN IF Contains(query_lower, "control") THEN Of("Control", "El grupo Control")
       ELSE IF ContainsAny(query_lower, <<"experimento a", "experimento_a", "experiment a">>)
       THEN Of("Experimento_A", "El Experimento A")
       ELSE IF ContainsAny(query_lower, <<"experimento b", "experimento_b", "experiment b">>)
       THEN Of("Experimento_B", "El Experimento B")
       ELSE IF ContainsAny(query_lower, <<"experimento c", "experimento_c", "experiment c">>)
       THEN Of("Experimento_C", "El Experimento C")
       ELSE "El dataset contiene " \o str(summary.total_records) \o " tiendas con "
            \o FormatThousands(summary.total_users) \o " usuarios en total."

\* The keys of count_handlers, in the order of the dict.
CountKeys == <<"usuarios", "conversiones", "tiendas", "regiones", "tipos">>

\* A handle_count_query without the combined answer for stores and users.
handle_count_query_single(query, rows, exp_counts) ==
    LET query_lower == lower(query)
        summary == get_data_summary(rows)
        Asked(key) == \/ Contains(query_lower, key)
                      \/ (key = "usuarios" /\ Contains(query_lower, "user"))
        asked == SelectSeq(CountKeys, Asked)
    IN IF Len(asked) > 0
       THEN Some(CASE asked[1] = "usuarios" -> _count_users(query_lower, summary, rows)
                   [] asked[1] = "conversiones" -> _count_conversions(query_lower, summary, rows)
                   [] asked[1] = "tiendas" -> _count_stores(query_lower, summary, rows, exp_counts)
                   [] asked[1] = "regiones" -> _count_regions(query_lower, summary)
                   [] asked[1] = "tipos" -> _count_store_types(query_lower, summary))
       ELSE Some("El dataset contiene " \o str(summary.total_records) \o " tiendas con "
                 \o FormatThousands(summary.total_users) \o " usuarios y "
                 \o FormatThousands(summary.total_conversions) \o " conversiones en total.")

\* IntentRouter.handle_count_query
handle_count_query(query, rows, exp_counts) ==
    LET query_lower == lower(query)
        summary == get_data_summary(rows)
        Asked(key) == \/ Contains(query_lower, key)
                      \/ (key = "usuarios" /\ Contains(query_lower, "user"))
        asked == SelectSeq(CountKeys, Asked)
    IN IF /\ (Contains(query_lower, "tienda") \/ Contains(query_lower, "store"))
          /\ (Contains(query_lower, "usuario") \/ Contains(query_lower, "user"))
       THEN Some(_count_stores_and_users(query_lower, summary, rows))
       ELSE IF Len(asked) > 0
       THEN Some(CASE asked[1] = "usuarios" -> _count_users(query_lower, summary, rows)
                   [] asked[1] = "conversiones" -> _count_conversions(query_lower, summary, rows)
                   [] asked[1] = "tiendas" -> _count_stores(query_lower, summary, rows, exp_counts)
                   [] asked[1] = "regiones" -> _count_regions(query_lower, summary)
                   [] asked[1] = "tipos" -> _count_store_types(query_lower, summary))
       ELSE Some("El dataset contiene " \o str(summary.total_records) \o " tiendas con "
                 \o FormatThousands(summary.total_users) \o " usuarios y "
                 \o FormatThousands(summary.total_conversions) \o " conversiones en total.")

\* IntentRouter.handle_data_info
handle_data_info(query, rows) ==
    LET summary == get_data_summary(rows)
    IN Some("Datos disponibles en el dataset:" \o NL
            \o Bullet \o " " \o str(summary.total_records) \o " registros de tiendas" \o NL
            \o Bullet \o " Experimentos: " \o join(", ", summary.experiments) \o " " \o NL
            \o Bullet \o " Regiones: " \o join(", ", summary.regions) \o NL
            \o Bullet \o " Tipos de tienda: " \o join(", ", summary.store_types) \o NL
            \o Bullet \o " Total usuarios: " \o FormatThousands(summary.total_users) \o NL
            \o Bullet \o " Total conversiones: " \o FormatThousands(summary.total_conversions) \o NL
            \o Bullet \o " Revenue total: $" \o FormatMoney(summary.total_revenue))

\* IntentRouter.handle_store_id_query: the pattern is searched in the query as
\* typed, case sensitive; match.group(0) is the leftmost match.
handle_store_id_query(query, rows) ==
    IF StoreIdPattern(query, FALSE)
    THEN LET at == CHOOSE i \in 1..Len(query) :
                       /\ StoreIdLenAt(query, i, FALSE) > 0
                       /\ \A j \in 1..(i - 1) : StoreIdLenAt(query, j, FALSE) = 0
             store_id == SubSeq(query, at, at + StoreIdLenAt(query, at, FALSE) - 1)
             store_data == WhereEq(rows, "tienda_id", store_id)
         IN IF Len(store_data) > 0
            THEN LET row == store_data[1]
                 IN Some("Datos de la tienda " \o store_id \o ":" \o NL
                         \o Bullet \o " Experimento: " \o row.experimento \o NL
                         \o Bullet \o " Región: " \o row.region \o NL
                         \o Bullet \o " Tipo de tienda: " \o row.tipo_tienda \o NL
                         \o Bullet \o " Usuarios: " \o FormatThousands(row.usuarios) \o NL
                         \o Bullet \o " Conversiones: " \o FormatThousands(row.conversiones) \o NL
                         \o Bullet \o " Revenue: $" \o FormatMoney(row.revenue) \o NL
                         \o Bullet \o " Conversion Rate: " \o FormatFixed2(row.conversion_rate) \o "%")
            ELSE Some("No se encontraron datos para la tienda " \o store_id \o ".")
    ELSE None

\* A handle_unknown that answers, where the code returns None.
handle_unknown_answering(query) == Some("No entiendo la consulta.")

\* IntentRouter.handle_unknown
handle_unknown(query) == None

\* IntentRouter.route_query: the handler named by the classified intent decides.
\* exp_counts is the value_counts() that _count_stores would compute.
route_query(query, rows, exp_counts) ==
    LET intent == classify_intent(query)
    IN CASE intent.handler = "handle_greeting" -> handle_greeting(query)
         [] intent.handler = "handle_count_query" -> handle_count_query(query, rows, exp_counts)
         [] intent.handler = "handle_data_info" -> handle_data_info(query, rows)
         [] intent.handler = "handle_store_id_query" -> handle_store_id_query(query, rows)
         [] intent.handler = "handle_unknown" -> handle_unknown(query)
         [] OTHER -> None

\* The answers route_query can return: one for each result value_counts() can
\* give on the rows that are not in the control group.
RouteAnswers(query, rows) ==
    { route_query(query, rows, c) : c \in value_counts(WhereNe(rows, "experimento", "Control")) }

----------------------------------------------------------------------------
(* query.py: the query engine over the Superlinked index.                  *)

\* settings.default_limit
default_limit == 5

\* The limit filter_search asks the index for.
filter_search_limit == 20

\* limit=None, the default of semantic_search's parameter.
NoLimit == -1

\* The attributes of ABTestingSchema, which hasattr(self.schema, name) finds.
SchemaFields ==
    {"id", "experimento", "tienda_id", "region", "tipo_tienda", "usuarios",
     "conversiones", "revenue", "conversion_rate", "description"}

\* A filter mapping is a Python dict: its items <<key, value>> in insertion order.
HasKey(filters, key) == \E i \in 1..Len(filters) : filters[i][1] = key

ValueOf(filters, key) == filters[CHOOSE i \in 1..Len(filters) : filters[i][1] = key][2]

\* The first n elements of a list: list[:n], DataFrame.head(n), Query.limit(n).
Take(list, n) == SubSeq(list, 1, IF n < Len(list) THEN n ELSE Len(list))

\* The orders of n elements.
Orders(n) == { o \in [1..n -> 1..n] : \A i, j \in 1..n : i /= j => o[i] /= o[j] }

\* ABTestingQueryEngine.extract_filters_from_query
extract_filters_from_query(query) ==
    LET query_lower == lower(query)
        regions == <<"este", "norte", "sur", "oeste">>
        found == SelectSeq(regions, LAMBDA region : Contains(query_lower, region))
        experimento ==
            IF Contains(query_lower, "control") THEN << <<"experimento", "Control">> >>
            ELSE IF Contains(query_lower, "experimento") \/ Contains(query_lower, "variante")
            THEN << <<"experimento", "Experimento_A">> >>
            ELSE <<>>
        region ==
            IF Len(found) > 0 THEN << <<"region", capitalize(found[1])>> >> ELSE <<>>
        tipo_tienda ==
            IF Contains(query_lower, "mall") THEN << <<"tipo_tienda", "Mall">> >>
            ELSE IF Contains(query_lower, "street") \/ Contains(query_lower, "calle")
            THEN << <<"tipo_tienda", "Street">> >>
            ELSE IF Contains(query_lower, "outlet") THEN << <<"tipo_tienda", "Outlet">> >>
            ELSE <<>>
    IN experimento \o region \o tipo_tienda

\* ABTestingQueryEngine._apply_filters: the where() conditions added to the
\* query, one for each item whose key is an attribute of the schema.
_apply_filters(filters) == SelectSeq(filters, LAMBDA f : f[1] \in SchemaFields)

\* The value of a schema field of an indexed document.
DocField(doc, field) == IF field = "id" THEN doc.id ELSE doc.row[field]

\* self.app.query(query.limit(limit)): what the Superlinked index can return
\* for a query with the given where() conditions.  The entries are the
\* documents that satisfy every condition, at most `limit` of them; their
\* order comes from the embedding similarity, which is the index's own: every
\* order is possible.  An entry carries the document id and its rank as score.
app_query(documents, conditions, limit) ==
    LET matching == SelectSeq(documents,
                        LAMBDA d : \A i \in 1..Len(conditions) :
                                       DocField(d, conditions[i][1]) = conditions[i][2])
        n == Len(matching)
    IN { Take([i \in 1..n |-> [id |-> matching[o[i]].id, score |-> i]], limit) :
           o \in Orders(n) }

\* The body of the loop of _format_results: one result for one ResultEntry.
FormatEntry(entry) ==
    LET id_parts == split(entry.id, "_")
        experimento == IF Len(id_parts) >= 3 THEN id_parts[1] ELSE "Unknown"
        tienda_id ==
            IF Len(id_parts) >= 3
            THEN (IF Len(id_parts) > 3 THEN join("_", SubSeq(id_parts, 2, 3)) ELSE id_parts[2])
            ELSE "Unknown"
    IN [score |-> entry.score,
        data |-> [experimento |-> experimento, tienda_id |-> tienda_id,
                  region |-> "Unknown", tipo_tienda |-> "Unknown",
                  usuarios |-> 0, conversiones |-> 0, revenue |-> 0, conversion_rate |-> 0],
        description |-> "Resultado del experimento " \o experimento
                        \o " en tienda " \o tienda_id]

\* ABTestingQueryEngine._format_results
_format_results(entries) == [i \in 1..Len(entries) |-> FormatEntry(entries[i])]

\* The limit semantic_search passes to the index: `limit or settings.default_limit`.
EffectiveLimit(limit) == IF limit = NoLimit \/ limit = 0 THEN default_limit ELSE limit

\* ABTestingQueryEngine.semantic_search, up to the call of the index: the
\* where() conditions and the limit of the query it builds.
semantic_search_query(filters, limit) ==
    [conditions |-> IF Len(filters) > 0 THEN _apply_filters(filters) ELSE <<>>,
     limit |-> EffectiveLimit(limit)]

\* ABTestingQueryEngine.filter_search, up to the call of the index.
filter_search_query(filters) ==
    [conditions |-> _apply_filters(filters), limit |-> filter_search_limit]

\* DataFrame.sort_values(by=column, ascending=ascending) on a numeric column:
\* the rows in every order that is sorted by the column.  The call names no
\* sort kind, so the kind is pandas' default "quicksort", which pandas
\* documents as not stable: NumPy's introsort partitions a column of more
\* than 16 values by swaps that reorder equal keys.  The files here are
\* shorter than that, so the order of equal keys is left open at every
\* length, as it is in the files the program reads.
sort_values(rows, column, ascending) ==
    LET n == Len(rows)
        InOrder(a, b) == IF ascending THEN a[column] <= b[column] ELSE a[column] >= b[column]
    IN { [i \in 1..n |-> rows[o[i]]] :
           o \in { p \in Orders(n) : \A i \in 1..(n - 1) : InOrder(rows[p[i]], rows[p[i + 1]]) } }

\* The result built for one row by get_top_performers.
PerformerResult(row) ==
    [tienda_id |-> row.tienda_id, experimento |-> row.experimento, region |-> row.region,
     tipo_tienda |-> row.tipo_tienda, usuarios |-> row.usuarios,
     conversiones |-> row.conversiones, revenue |-> row.revenue,
     conversion_rate |-> row.conversion_rate,
     description |-> "Tienda " \o row.tienda_id \o " en " \o row.region \o " ("
                     \o row.tipo_tienda \o ") - " \o row.experimento \o ": "
                     \o FormatFixed2(row.conversion_rate) \o "% conversión, $"
                     \o FormatFixed2(row.revenue) \o " revenue"]

\* data[data[field_name] == value] for every item whose key is a column.
RECURSIVE FilterRows(_, _)
FilterRows(rows, filters) ==
    IF Len(filters) = 0 THEN rows
    ELSE FilterRows(IF filters[1][1] \in Columns
                    THEN WhereEq(rows, filters[1][1], filters[1][2])
                    ELSE rows,
                    Tail(filters))

\* ABTestingQueryEngine.get_top_performers on the dataset file as it is now:
\* the outcomes the call can have.  It loads the file anew, filters, sorts and
\* keeps the first `limit` rows; a metric that is no column makes sort_values
\* raise KeyError, which the except clause turns into an empty list.
get_top_performers(file, metric, order, limit, filters) ==
    LET loaded == FilterRows(load_data(file), filters)
        reverse_order == (lower(order) = "desc")
    IN IF metric \notin Columns
       THEN { [results |-> <<>>, raised |-> "None"] }
       ELSE { [results |-> [i \in 1..Len(Take(sorted_data, limit)) |->
                               PerformerResult(sorted_data[i])],
               raised |-> "None"] :
                sorted_data \in sort_values(loaded, metric, ~reverse_order) }

----------------------------------------------------------------------------
(* analytics.py: the analysis of the experiments against the control group. *)
(* A float is the exact fraction num / den; den = 0 is NaN (the mean of no  *)
(* row).  The t statistic, the chi-square statistic and their p-values are  *)
(* SciPy's and are not computed here: of the significance test the model    *)
(* keeps whether it returns or raises.                                      *)

Frac(n, d) == [num |-> n, den |-> d]

IsNaN(x) == x.den = 0

\* x == 0 for a float x (False for NaN).
IsZero(x) == x.den /= 0 /\ x.num = 0

\* a > b for floats with non-negative denominators (False when either is NaN).
Greater(a, b) == ~IsNaN(a) /\ ~IsNaN(b) /\ a.num * b.den > b.num * a.den

\* ABTestingAnalytics._calculate_metrics (the median and the standard
\* deviation of the conversion rate, which nothing reads, are left out).
_calculate_metrics(rows) ==
    [total_usuarios |-> ColumnSum(rows, "usuarios"),
     total_conversiones |-> ColumnSum(rows, "conversiones"),
     total_revenue |-> ColumnSum(rows, "revenue"),
     avg_conversion_rate |-> ColumnMean(rows, "conversion_rate"),
     avg_revenue_per_user |-> Frac(ColumnSum(rows, "revenue"), ColumnSum(rows, "usuarios")),
     avg_revenue_per_conversion |->
         IF ColumnSum(rows, "conversiones") > 0
         THEN Frac(ColumnSum(rows, "revenue"), ColumnSum(rows, "conversiones"))
         ELSE Frac(0, 1)]

\* A _calculate_lift without the test of the control value: it divides by zero.
_calculate_lift_unguarded(experiment_value, control_value) ==
    IF IsNaN(control_value) \/ IsNaN(experiment_value) THEN Frac(0, 0)
    ELSE Frac((experiment_value.num * control_value.den
                 - control_value.num * experiment_value.den) * 100,
              experiment_value.den * control_value.num)

\* ABTestingAnalytics._calculate_lift: ((experiment - control) / control) * 100,
\* and 0 when the control value is 0.
_calculate_lift(experiment_value, control_value) ==
    IF IsZero(control_value) THEN Frac(0, 1)
    ELSE IF IsNaN(control_value) \/ IsNaN(experiment_value) THEN Frac(0, 0)
    ELSE Frac((experiment_value.num * control_value.den
                 - control_value.num * experiment_value.den) * 100,
              experiment_value.den * control_value.num)

\* Whether stats.chi2_contingency raises ValueError on the table that
\* _perform_statistical_test builds: a negative cell, or a zero among the
\* expected frequencies (a row or a column of the table sums to 0 while the
\* table does not).
ContingencyRaises(control_rows, experiment_rows) ==
    LET a == ColumnSum(control_rows, "conversiones")
        b == ColumnSum(control_rows, "usuarios") - a
        c == ColumnSum(experiment_rows, "conversiones")
        d == ColumnSum(experiment_rows, "usuarios") - c
    IN \/ a < 0 \/ b < 0 \/ c < 0 \/ d < 0
       \/ /\ a + b + c + d /= 0
          /\ (a + b = 0 \/ c + d = 0 \/ a + c = 0 \/ b + d = 0)

\* The segment analysis of _analyze_by_region and _analyze_by_store_type: for
\* each value of the column, in order of first appearance, an entry when the
\* segment has control rows and Experimento_A rows.
SegmentAnalysis(rows, column) ==
    LET values == Unique(rows, column)
        Control(v) == WhereEq(WhereEq(rows, column, v), "experimento", "Control")
        Experiment(v) == WhereEq(WhereEq(rows, column, v), "experimento", "Experimento_A")
        reported == SelectSeq(values,
                        LAMBDA v : Len(Control(v)) > 0 /\ Len(Experiment(v)) > 0)
    IN [i \in 1..Len(reported) |->
          LET v == reported[i]
          IN [segment |-> v,
              control_conversion_rate |-> ColumnMean(Control(v), "conversion_rate"),
              experiment_conversion_rate |-> ColumnMean(Experiment(v), "conversion_rate"),
              lift |-> _calculate_lift(ColumnMean(Experiment(v), "conversion_rate"),
                                       ColumnMean(Control(v), "conversion_rate")),
              control_revenue |-> ColumnSum(Control(v), "revenue"),
              experiment_revenue |-> ColumnSum(Experiment(v), "revenue"),
              sample_size_control |-> Len(Control(v)),
              sample_size_experiment |-> Len(Experiment(v))]]

\* ABTestingAnalytics._analyze_by_region
_analyze_by_region(rows) == SegmentAnalysis(rows, "region")

\* ABTestingAnalytics._analyze_by_store_type
_analyze_by_store_type(rows) == SegmentAnalysis(rows, "tipo_tienda")

\* The experiment groups the analysis loops over: the experimento values other
\* than Control, in order of first appearance.
ExperimentGroups(rows) == Unique(WhereNe(rows, "experimento", "Control"), "experimento")

\* The entry results[experiment_name] of analyze_ab_test_results.
ExperimentResult(rows, experiment_name) ==
    LET control == _calculate_metrics(WhereEq(rows, "experimento", "Control"))
        metrics == _calculate_metrics(WhereEq(rows, "experimento", experiment_name))
    IN [name |-> experiment_name,
        metrics |-> metrics,
        conversion_lift |-> _calculate_lift(metrics.avg_conversion_rate,
                                            control.avg_conversion_rate),
        revenue_lift |-> _calculate_lift(Frac(metrics.total_revenue, 1),
                                         Frac(control.total_revenue, 1))]

\* A max() that keeps the last of the elements with the greatest lift.
RECURSIVE MaxByLift_last(_)
MaxByLift_last(results) ==
    IF Len(results) = 1 THEN results[1]
    ELSE LET best == MaxByLift_last(SubSeq(results, 1, Len(results) - 1))
             last == results[Len(results)]
         IN IF Greater(best.conversion_lift, last.conversion_lift) THEN best ELSE last

\* max(experiment_groups, key=lambda x: results[x]['conversion_lift']) on a
\* non-empty list: the first element that no later element exceeds.
RECURSIVE MaxByLift(_)
MaxByLift(results) ==
    IF Len(results) = 1 THEN results[1]
    ELSE LET best == MaxByLift(SubSeq(results, 1, Len(results) - 1))
             last == results[Len(results)]
         IN IF Greater(last.conversion_lift, best.conversion_lift) THEN last ELSE best

\* ABTestingAnalytics._generate_summary_multi on a non-empty list of experiment
\* results: the control figures, one entry per experiment in the order of
\* the results, and the best experiment.
_generate_summary_multi(control, results) ==
    [control |-> control,
     lines |-> [i \in 1..Len(results) |->
                  [name |-> results[i].name,
                   conversion_lift |-> results[i].conversion_lift,
                   revenue_lift |-> results[i].revenue_lift]],
     best_experiment |-> MaxByLift(results).name,
     best_lift |-> MaxByLift(results).conversion_lift]

\* No report: the value of the analysis cache before the first analysis, and
\* of a call that raised.
NoReport == [groups |-> <<>>]

\* ABTestingAnalytics.analyze_ab_test_results: the report, or the exception
\* that leaves the call.  The significance test of a group raises ValueError
\* when chi2_contingency rejects its table; max() of no experiment group
\* raises ValueError in _generate_summary_multi.
analyze_ab_test_results(rows) ==
    LET control_data == WhereEq(rows, "experimento", "Control")
        experiment_groups == ExperimentGroups(rows)
        results == [i \in 1..Len(experiment_groups) |-> ExperimentResult(rows, experiment_groups[i])]
    IN IF \E i \in 1..Len(experiment_groups) :
              ContingencyRaises(control_data, WhereEq(rows, "experimento", experiment_groups[i]))
       THEN [raised |-> "ValueError",
             message |-> "The internally computed table of expected frequencies has a zero element",
             report |-> NoReport]
       ELSE IF Len(experiment_groups) = 0
       THEN [raised |-> "ValueError", message |-> "max() arg is an empty sequence",
             report |-> NoReport]
       ELSE [raised |-> "None", message |-> "",
             report |-> [groups |-> <<"control">> \o experiment_groups,
                         control |-> _calculate_metrics(control_data),
                         experiments |-> results,
                         regional_analysis |-> _analyze_by_region(rows),
                         store_type_analysis |-> _analyze_by_store_type(rows),
                         summary |-> _generate_summary_multi(
                                         _calculate_metrics(control_data), results)]]

----------------------------------------------------------------------------
(* chatbot_v2.py: generate_response and what it calls.                      *)

\* A test of the router's answer that never takes the early return, where
\* the code has `if simple_response:`.
never_returns_early(simple_response) == FALSE

\* `if simple_response:` -- an answer that is neither None nor the empty string.
Truthy(simple_response) == simple_response /= None /\ simple_response[1] /= ""

\* An _is_performance_query that finds no query to be about performance.
_is_performance_query_never(query) == FALSE

\* ABTestingChatbotV2._is_performance_query
_is_performance_query(query) ==
    ContainsAny(lower(query),
        <<"mayor", "menor", "máximo", "mínimo", "mejor", "peor", "top", "ranking",
          "más alto", "más bajo", "highest", "lowest", "best", "worst", "máx", "mín">>)

\* ABTestingChatbotV2._handle_performance_query, up to the call of
\* get_top_performers: the metric and the order it asks for.
PerformanceMetric(query) ==
    LET query_lower == lower(query)
    IN IF ContainsAny(query_lower, <<"revenue", "ingreso", "ganancia">>) THEN "revenue"
       ELSE IF ContainsAny(query_lower, <<"usuario", "users", "tráfico">>) THEN "usuarios"
       ELSE "conversion_rate"

PerformanceOrder(query) ==
    IF ContainsAny(lower(query), <<"menor", "mínimo", "peor", "lowest", "worst", "mín">>)
    THEN "asc" ELSE "desc"

\* The limit _handle_performance_query passes to get_top_performers.
performance_limit == 5

\* ABTestingChatbotV2._handle_performance_query: the lists it can return (an
\* exception of get_top_performers would become the empty list).
_handle_performance_query(query, filters, file) ==
    { IF o.raised = "None" THEN o.results ELSE <<>> :
        o \in get_top_performers(file, PerformanceMetric(query), PerformanceOrder(query),
                                 performance_limit, filters) }

\* How many results of a list _build_context shows.
context_shown == 3

\* ABTestingChatbotV2._build_context: the parts of the text sent to the generator.
_build_context(query, semantic_results, filter_results, ab_analysis, performance_results) ==
    [query |-> query,
     summary |-> ab_analysis.summary,
     regional_analysis |-> ab_analysis.regional_analysis,
     store_type_analysis |-> ab_analysis.store_type_analysis,
     semantic |-> [i \in 1..Len(Take(semantic_results, context_shown)) |->
                     [description |-> semantic_results[i].description,
                      score |-> semantic_results[i].score]],
     filtered |-> [i \in 1..Len(Take(filter_results, context_shown)) |->
                     filter_results[i].description],
     performance |-> performance_results]

\* No context: the generator was not called.
NoContext == [query |-> ""]

\* The outcomes of self.openai_client.chat.completions.create: a completion,
\* or an exception (network, rate limit).  The text is the service's own.
GeneratorOutcomes ==
    { [raised |-> "None", content |-> "(completion)"],
      [raised |-> "APIError", content |-> "(the error)"] }

\* An except clause that returns the text of the exception as it is.
Apology_bare(message) == message

\* The answer of the except clause of generate_response for an exception e.
Apology(message) ==
    "Lo siento, ocurrió un error al procesar tu consulta: Error generando respuesta: "
    \o message

\* A get_ab_analysis whose cache is one attribute of the class, shared by
\* every chatbot of the process.
get_ab_analysis_shared(cached, rows) ==
    LET shared == IF cache /= NoReport THEN cache ELSE peer.cache
    IN IF shared = NoReport
       THEN LET a == analyze_ab_test_results(rows)
            IN [raised |-> a.raised, message |-> a.message, report |-> a.report,
                cache |-> a.report]
       ELSE [raised |-> "None", message |-> "", report |-> shared, cache |-> shared]

\* A get_ab_analysis that analyses on every call and keeps nothing.
get_ab_analysis_unstored(cached, rows) ==
    LET a == analyze_ab_test_results(rows)
    IN [raised |-> a.raised, message |-> a.message, report |-> a.report,
        cache |-> cached]

\* ABTestingChatbotV2.get_ab_analysis: the cached report, or a new analysis
\* that is cached when it returns.
get_ab_analysis(cached, rows) ==
    IF cached = NoReport
    THEN LET a == analyze_ab_test_results(rows)
         IN [raised |-> a.raised, message |-> a.message, report |-> a.report,
             cache |-> a.report]
    ELSE [raised |-> "None", message |-> "", report |-> cached, cache |-> cached]

----------------------------------------------------------------------------
(* The state machine: one chatbot instance, built on a dataset file, and    *)
(* the calls made on it one at a time.  req is the call, res its result;    *)
(* Return hands the result back and leaves the instance ready for the next. *)

NoReq == [op |-> "none", query |-> "", filters |-> <<>>, metric |-> "", order |-> "",
          limit |-> NoLimit]

NoRes == [intent |-> "", answer |-> None, response |-> "", calls |-> <<>>,
          filters |-> <<>>, entries |-> <<>>, results |-> <<>>, raised |-> "",
          report |-> NoReport, context |-> NoContext]

\* No second chatbot has been built.
NoPeer == [data |-> <<>>, cache |-> NoReport, report |-> NoReport]

Idle == req.op = "none"

\* The queries put to the chatbot.
ChatQueries ==
    { "Hola",
      "¿Cuántos usuarios tiene el grupo Control?",
      "¿Qué datos tenemos?",
      "Datos de T_Control_001",
      "Analiza el impacto cultural",
      "tiendas control en la región este",
      "¿Cuál es la tienda control con mayor revenue?",
      "Hola, ¿cómo va la variante en la región oeste?" }

\* The words the generated query texts are made of.
Words ==
    << "hola", "hi", "cuántos", "usuarios", "datos", "tienda", "id", "control",
       "variante", "este", "oeste", "norte", "sur", "mall", "impacto" >>

\* The texts of n words separated by blanks.
RECURSIVE Texts(_)
Texts(n) ==
    IF n = 1 THEN { Words[i] : i \in 1..Len(Words) }
    ELSE { t \o " " \o Words[i] : t \in Texts(n - 1), i \in 1..Len(Words) }

\* Queries at the edges of the handlers: greetings of 15 and 16 characters,
\* store ids in lower case and without a record, counts that name several
\* counters or none.
HandlerQueries ==
    { "Hola, que tal??",
      "Hola, que tal???",
      "  Hola, que tal??  ",
      "datos de t_control_001",
      "Datos de T_Control_999",
      "cuántas conversiones y usuarios hay",
      "cuántas tiendas y regiones hay",
      "cuántos tipos de regiones hay",
      "cuántos tipos de tienda hay",
      "cuántas tiendas tienen usuarios",
      "how many users",
      "total" }

\* The query texts of the text functions: the chat queries, the queries at
\* the edges of the handlers and every text of 1..MaxWords words.
TextQueries == ChatQueries \cup HandlerQueries \cup UNION { Texts(n) : n \in 1..MaxWords }

\* The filter mappings passed to the engine directly.
FilterInputs ==
    { <<>>,
      << <<"experimento", "Control">> >>,
      << <<"region", "Este">>, <<"tipo_tienda", "Mall">> >>,
      << <<"ciudad", "Lima">> >> }

\* The metric names passed to get_top_performers directly.
MetricInputs == {"usuarios", "conversiones", "revenue", "conversion_rate", "ventas"}

\* ABTestingChatbotV2.__init__: the data processor loads the dataset file, the
\* documents are indexed, the analysis cache is empty.
Init ==
    /\ disk \in Datasets
    /\ data = load_data(disk)
    /\ cache = NoReport
    /\ req = NoReq
    /\ res = NoRes
    /\ peer = NoPeer

\* The documents in the index: those prepared from the loaded rows at startup.
Indexed == prepare_documents(data)

\* The dataset file is rewritten by someone else: its last row is replaced
\* by another one.  The running chatbot is not told.
FileChange ==
    /\ Idle
    /\ \E file \in Datasets :
          /\ Len(file) = Len(disk)
          /\ SubSeq(file, 1, Len(disk) - 1) = SubSeq(disk, 1, Len(disk) - 1)
          /\ file /= disk
          /\ disk' = file
    /\ UNCHANGED <<data, cache, req, res, peer>>

\* IntentRouter.classify_intent(query)
ClassifyIntent(query) ==
    /\ Idle
    /\ req' = [NoReq EXCEPT !.op = "classify_intent", !.query = query]
    /\ res' = [NoRes EXCEPT !.intent = classify_intent(query).type]
    /\ UNCHANGED <<data, disk, cache, peer>>

\* IntentRouter.route_query(query)
RouteQuery(query) ==
    /\ Idle
    /\ req' = [NoReq EXCEPT !.op = "route_query", !.query = query]
    /\ \E answer \in RouteAnswers(query, data) :
          res' = [NoRes EXCEPT !.intent = classify_intent(query).type, !.answer = answer]
    /\ UNCHANGED <<data, disk, cache, peer>>

\* ABTestingQueryEngine.extract_filters_from_query(query)
ExtractFilters(query) ==
    /\ Idle
    /\ req' = [NoReq EXCEPT !.op = "extract_filters", !.query = query]
    /\ res' = [NoRes EXCEPT !.filters = extract_filters_from_query(query)]
    /\ UNCHANGED <<data, disk, cache, peer>>

\* ABTestingQueryEngine.semantic_search(query_text, filters, limit)
SemanticSearch(query, filters, limit) ==
    /\ Idle
    /\ req' = [NoReq EXCEPT !.op = "semantic_search", !.query = query,
                            !.filters = filters, !.limit = limit]
    /\ LET q == semantic_search_query(filters, limit)
       IN \E entries \in app_query(Indexed, q.conditions, q.limit) :
             res' = [NoRes EXCEPT !.entries = entries, !.results = _format_results(entries)]
    /\ UNCHANGED <<data, disk, cache, peer>>

\* ABTestingQueryEngine.filter_search(**filters)
FilterSearch(filters) ==
    /\ Idle
    /\ req' = [NoReq EXCEPT !.op = "filter_search", !.filters = filters]
    /\ LET q == filter_search_query(filters)
       IN \E entries \in app_query(Indexed, q.conditions, q.limit) :
             res' = [NoRes EXCEPT !.entries = entries, !.results = _format_results(entries)]
    /\ UNCHANGED <<data, disk, cache, peer>>

\* A get_top_performers that sorts the frame the instance loaded, in place,
\* where the code sorts a copy of a frame it loads itself.
GetTopPerformers_in_place(metric, order, limit, filters) ==
    /\ Idle
    /\ req' = [NoReq EXCEPT !.op = "get_top_performers", !.metric = metric,
                            !.order = order, !.limit = limit, !.filters = filters]
    /\ IF metric \notin Columns
       THEN /\ res' = [NoRes EXCEPT !.raised = "None"]
            /\ data' = data
       ELSE \E sorted_data \in sort_values(data, metric, lower(order) /= "desc") :
               /\ res' = [NoRes EXCEPT
                            !.results = [i \in 1..Len(Take(sorted_data, limit)) |->
                                            PerformerResult(sorted_data[i])],
                            !.raised = "None"]
               /\ data' = sorted_data
    /\ UNCHANGED <<disk, cache, peer>>

\* ABTestingQueryEngine.get_top_performers(metric, order, limit, filters)
GetTopPerformers(metric, order, limit, filters) ==
    /\ Idle
    /\ req' = [NoReq EXCEPT !.op = "get_top_performers", !.metric = metric,
                            !.order = order, !.limit = limit, !.filters = filters]
    /\ \E o \in get_top_performers(disk, metric, order, limit, filters) :
          res' = [NoRes EXCEPT !.results = o.results, !.raised = o.raised]
    /\ UNCHANGED <<data, disk, cache, peer>>

\* ABTestingAnalytics.analyze_ab_test_results() on the chatbot's analytics
Analyze ==
    /\ Idle
    /\ req' = [NoReq EXCEPT !.op = "analyze_ab_test_results"]
    /\ LET a == analyze_ab_test_results(data)
       IN res' = [NoRes EXCEPT !.raised = a.raised, !.report = a.report]
    /\ UNCHANGED <<data, disk, cache, peer>>

\* ABTestingChatbotV2.get_ab_analysis()
GetAbAnalysis ==
    /\ Idle
    /\ req' = [NoReq EXCEPT !.op = "get_ab_analysis"]
    /\ LET a == get_ab_analysis(cache, data)
       IN /\ res' = [NoRes EXCEPT !.raised = a.raised, !.report = a.report]
          /\ cache' = a.cache
    /\ UNCHANGED <<data, disk, peer>>

\* ABTestingChatbotV2.generate_response(user_query): the whole call.  An
\* exception of any step is caught by the except clause, which returns the
\* apology.  res.calls lists the collaborators called, in order.
GenerateResponse(user_query) ==
    /\ Idle
    /\ req' = [NoReq EXCEPT !.op = "generate_response", !.query = user_query]
    /\ \E simple_response \in RouteAnswers(user_query, data),
          intent \in {classify_intent(user_query)} :
          LET routed == [NoRes EXCEPT !.intent = intent.type,
                                      !.answer = simple_response,
                                      !.calls = <<"route_query">>,
                                      !.raised = "None"]
          IN IF Truthy(simple_response)
             THEN /\ res' = [routed EXCEPT !.response = simple_response[1]]
                  /\ cache' = cache
             ELSE \E filters \in {extract_filters_from_query(user_query)},
                     analysis \in {get_ab_analysis(cache, data)} :
                  LET performance == _is_performance_query(user_query)
                      sq == semantic_search_query(filters, default_limit)
                      fq == filter_search_query(filters)
                      calls == <<"route_query", "extract_filters_from_query">>
                               \o (IF performance THEN <<"get_top_performers">> ELSE <<>>)
                               \o <<"semantic_search">>
                               \o (IF Len(filters) > 0 THEN <<"filter_search">> ELSE <<>>)
                               \o <<"get_ab_analysis">>
                  IN IF analysis.raised /= "None"
                     THEN /\ res' = [routed EXCEPT !.filters = filters, !.calls = calls,
                                                   !.response = Apology(analysis.message)]
                          /\ cache' = analysis.cache
                     ELSE \E performance_results \in
                                 (IF performance
                                  THEN _handle_performance_query(user_query, filters, disk)
                                  ELSE {<<>>}),
                             semantic_entries \in app_query(Indexed, sq.conditions, sq.limit),
                             filter_entries \in
                                 (IF Len(filters) > 0
                                  THEN app_query(Indexed, fq.conditions, fq.limit)
                                  ELSE {<<>>}),
                             completion \in GeneratorOutcomes :
                             LET context == _build_context(user_query,
                                                _format_results(semantic_entries),
                                                _format_results(filter_entries),
                                                analysis.report, performance_results)
                             IN /\ res' = [routed EXCEPT
                                             !.filters = filters,
                                             !.calls = calls \o <<"openai">>,
                                             !.context = context,
                                             !.response =
                                                 IF completion.raised = "None"
                                                 THEN completion.content
                                                 ELSE Apology(completion.content)]
                                /\ cache' = analysis.cache
    /\ UNCHANGED <<data, disk, peer>>

\* The call returns: the result is handed to the caller.
Return ==
    /\ ~Idle
    /\ req' = NoReq
    /\ res' = NoRes
    /\ UNCHANGED <<data, disk, cache, peer>>

\* The limits passed to the engine directly.
LimitInputs == {NoLimit, 0, 1, 2}

\* The order names passed to get_top_performers directly.
OrderInputs == {"desc", "asc"}

\* The chatbot and every operation on it, the engine's with a few arguments.
Next ==
    \/ FileChange
    \/ \E q \in ChatQueries : ClassifyIntent(q)
    \/ \E q \in ChatQueries : RouteQuery(q)
    \/ \E q \in ChatQueries : ExtractFilters(q)
    \/ \E f \in {<<>>, << <<"experimento", "Control">> >>} : SemanticSearch("tiendas", f, 2)
    \/ \E f \in {<< <<"experimento", "Control">> >>} : FilterSearch(f)
    \/ \E m \in {"revenue", "ventas"} : GetTopPerformers(m, "desc", 3, <<>>)
    \/ Analyze
    \/ GetAbAnalysis
    \/ \E q \in ChatQueries : GenerateResponse(q)
    \/ Return

Spec == Init /\ [][Next]_vars

\* The query engine alone, on every dataset, with every argument.
NextEngine ==
    \/ \E f \in FilterInputs, l \in LimitInputs : SemanticSearch("tiendas", f, l)
    \/ \E f \in FilterInputs : FilterSearch(f)
    \/ \E m \in MetricInputs, o \in OrderInputs, l \in {2, 3}, f \in FilterInputs :
          GetTopPerformers(m, o, l, f)
    \/ Return

SpecEngine == Init /\ [][NextEngine]_vars

\* The text functions alone, on every query text, over one dataset.
InitText ==
    /\ disk = << Row("Control", "T_Control_001", "Este", "Mall", 100, 10, 50, 10),
                 Row("Experimento_A", "T_Experimento_A_001", "Este", "Mall", 100, 10, 50, 10) >>
    /\ data = load_data(disk)
    /\ cache = NoReport
    /\ req = NoReq
    /\ res = NoRes
    /\ peer = NoPeer

NextText ==
    \/ \E q \in TextQueries : ClassifyIntent(q)
    \/ \E q \in TextQueries : RouteQuery(q)
    \/ \E q \in TextQueries : ExtractFilters(q)
    \/ Return

SpecText == InitText /\ [][NextText]_vars

\* The rows the datasets of the analysis are drawn from: the rows above, a
\* third experiment that ties with Experimento_A, a store without users and a
\* row whose conversions exceed its users.
AnalyticsRowPool ==
    RowPool \cup
    { Row("Experimento_C", "T_Experimento_C_001", "Oeste", "Street", 100, 10, 50, 10),
      Row("Experimento_A", "T_Experimento_A_002", "Norte", "Outlet", 0,   0,  0,  0),
      Row("Experimento_B", "T_Experimento_B_002", "Sur",   "Street", 5,   10, 20, 200) }

\* The datasets of the analysis: the CSV files of 1..MaxRows distinct rows.
AnalyticsDatasets ==
    UNION { { f \in [1..n -> AnalyticsRowPool] : \A i, j \in 1..n : i /= j => f[i] /= f[j] } :
              n \in 1..MaxRows }

\* The analysis alone, on every dataset of the analysis.
InitAnalytics ==
    /\ disk \in AnalyticsDatasets
    /\ data = load_data(disk)
    /\ cache = NoReport
    /\ req = NoReq
    /\ res = NoRes
    /\ peer = NoPeer

NextAnalytics ==
    \/ Analyze
    \/ GetAbAnalysis
    \/ Return

SpecAnalytics == InitAnalytics /\ [][NextAnalytics]_vars

\* Two chatbots in one process, the second built on the dataset file as it
\* is at its own construction.
InitPeers ==
    /\ disk \in Datasets
    /\ data = load_data(disk)
    /\ cache = NoReport
    /\ req = NoReq
    /\ res = NoRes
    /\ \E file \in Datasets :
          peer = [data |-> load_data(file), cache |-> NoReport, report |-> NoReport]

\* ABTestingChatbotV2.get_ab_analysis() on the second chatbot, at any moment
\* of the calls of the first; peer.report is what the call returned.
PeerGetAbAnalysis ==
    /\ LET a == get_ab_analysis(peer.cache, peer.data)
       IN peer' = [peer EXCEPT !.cache = a.cache, !.report = a.report]
    /\ UNCHANGED <<data, disk, cache, req, res>>

NextPeers ==
    \/ GetAbAnalysis
    \/ PeerGetAbAnalysis
    \/ Return

SpecPeers == InitPeers /\ [][NextPeers]_vars

----------------------------------------------------------------------------
(* Properties of the query engine.                                          *)

\* C1, as the specification states it: every result of semantic_search
\* carries the record fields (experiment group, store id, region, store type,
\* users, conversions, revenue, conversion rate) that the record store holds
\* for the id of its index hit; no result is made of placeholders or zeros.
C1_ResultsCarryStoredRecords ==
    req.op = "semantic_search" =>
        /\ Len(res.results) = Len(res.entries)
        /\ \A i \in 1..Len(res.results) :
              \E d \in 1..Len(Indexed) :
                  /\ Indexed[d].id = res.entries[i].id
                  /\ res.results[i].data = Indexed[d].row

\* The metrics the specification lets get_top_performers rank by.
RankingMetrics == {"usuarios", "conversiones", "revenue", "conversion_rate"}

\* The stable order of the rows by a column: by the column in the direction
\* asked, rows that tie in the order they had.
StableOrder(rows, column, ascending) ==
    CHOOSE o \in Orders(Len(rows)) :
        \A i, j \in 1..Len(rows) :
            i < j =>
                \/ (IF ascending THEN rows[o[i]][column] < rows[o[j]][column]
                                 ELSE rows[o[i]][column] > rows[o[j]][column])
                \/ (rows[o[i]][column] = rows[o[j]][column] /\ o[i] < o[j])

\* C2, as the specification states it: get_top_performers returns the records
\* sorted by the metric in the direction asked, records that tie on the metric
\* in their original relative order, cut to the first `limit`.
C2_StableRanking ==
    (req.op = "get_top_performers" /\ req.metric \in RankingMetrics) =>
        LET rows == FilterRows(disk, req.filters)
            o == StableOrder(rows, req.metric, req.order = "asc")
            kept == IF req.limit < Len(rows) THEN req.limit ELSE Len(rows)
        IN res.results = [i \in 1..kept |-> PerformerResult(rows[o[i]])]

\* C3, as the specification states it: get_top_performers with a metric name
\* that is none of users, conversions, revenue, conversion rate fails with an
\* error the caller sees; it never returns a result for it.
C3_UnknownMetricFails ==
    (req.op = "get_top_performers" /\ req.metric \notin RankingMetrics) =>
        res.raised /= "None"

----------------------------------------------------------------------------
(* Properties of the chatbot and the router.                                *)

\* The collaborators a call of generate_response has called.
Called == { res.calls[i] : i \in 1..Len(res.calls) }

\* C4: in generate_response the answer of route_query alone decides.  When it
\* is an answer, generate_response returns exactly it and has called nothing
\* but the router; when it is None, filter extraction, the semantic search
\* and the analysis are called, and then the generator with the context,
\* unless the analysis raised.  No query is both answered and passed on.
C4_HandlerDecides ==
    req.op = "generate_response" =>
        /\ res.answer \in RouteAnswers(req.query, data)
        /\ res.answer /= None =>
              /\ res.response = res.answer[1]
              /\ res.calls = <<"route_query">>
              /\ res.context = NoContext
        /\ res.answer = None =>
              /\ Len(res.calls) >= 4
              /\ SubSeq(res.calls, 1, 2) = <<"route_query", "extract_filters_from_query">>
              /\ {"semantic_search", "get_ab_analysis"} \subseteq Called
              /\ ("filter_search" \in Called) = (res.filters /= <<>>)
              /\ IF "openai" \in Called
                 THEN /\ res.calls[Len(res.calls)] = "openai"
                      /\ res.context /= NoContext
                      /\ res.context.query = req.query
                 ELSE /\ cache = NoReport
                      /\ analyze_ab_test_results(data).raised /= "None"
                      /\ res.response = Apology(analyze_ab_test_results(data).message)

\* C4, its case: "Hola" was answered by the greeting handler and
\* generate_response returned that answer after the router's call alone.
C4_GreetingReturnedEarly ==
    /\ req.op = "generate_response"
    /\ req.query = "Hola"
    /\ res.intent = "greeting"
    /\ res.answer /= None
    /\ res.response = res.answer[1]
    /\ res.calls = <<"route_query">>

\* The users of the control rows, added up row by row.
RECURSIVE ControlUsers(_)
ControlUsers(rows) ==
    IF Len(rows) = 0 THEN 0
    ELSE (IF rows[1].experimento = "Control" THEN rows[1].usuarios ELSE 0)
         + ControlUsers(Tail(rows))

\* C5: "¿Cuántos usuarios tiene el grupo Control?" is classified count_query
\* and its handler answers with exactly the sum of usuarios over the rows of
\* the control group, on every dataset; generate_response returns that answer.
C5_ControlUsersCounted ==
    (req.op \in {"route_query", "generate_response"}
        /\ req.query = "¿Cuántos usuarios tiene el grupo Control?") =>
        /\ res.intent = "count_query"
        /\ res.answer = Some("Las tiendas del grupo Control tienen un total de "
                             \o FormatThousands(ControlUsers(data)) \o " usuarios.")
        /\ req.op = "generate_response" => res.response = res.answer[1]

\* C5, its case: the question was put to the router on a dataset with two
\* control stores of 100 and 1200 users, and the answer names 1,300.
C5_ControlUsersAnswered ==
    /\ req.op = "route_query"
    /\ req.query = "¿Cuántos usuarios tiene el grupo Control?"
    /\ Len(WhereEq(data, "experimento", "Control")) = 2
    /\ Len(data) = 3
    /\ res.answer = Some("Las tiendas del grupo Control tienen un total de 1,300 usuarios.")

\* No pattern and no keyword of any registered intent matches the query.
NothingMatches(query) ==
    LET query_lower == strip(lower(query))
    IN \A i \in 1..Len(intents) :
          /\ ~PatternMatches(intents[i].type, query_lower)
          /\ ~KeywordMatches(intents[i], query_lower)

\* C6: a query that matches no pattern and no keyword of any registered
\* intent is classified unknown, and route_query returns None for every query
\* classified unknown.
C6_UnmatchedFallsThrough ==
    /\ (req.op \in {"classify_intent", "route_query"} /\ NothingMatches(req.query)) =>
           res.intent = "unknown"
    /\ (req.op = "route_query" /\ res.intent = "unknown") => res.answer = None

\* C6, its case: "Analiza el impacto cultural" matched nothing and the router
\* returned None for it.
C6_CulturalImpactUnanswered ==
    /\ req.op = "route_query"
    /\ req.query = "Analiza el impacto cultural"
    /\ NothingMatches(req.query)
    /\ res.intent = "unknown"
    /\ res.answer = None

\* Intent i comes before intent j in sorted(intents, by priority, reverse):
\* higher priority first, equal priorities in the order of the list.
ComesBefore(i, j) ==
    \/ intents[i].priority > intents[j].priority
    \/ (intents[i].priority = intents[j].priority /\ i < j)

\* The first of a non-empty set of intents in that order.
FirstOf(S) == CHOOSE i \in S : \A j \in S \ {i} : ComesBefore(i, j)

\* C7, as the specification states it: classify_intent visits the intents in
\* descending priority and for each looks at its patterns and then at its
\* keywords; the first intent that matches either way wins, so a keyword of a
\* higher priority beats a pattern of a lower one.
C7_FirstMatchOfOneLoop ==
    req.op = "classify_intent" =>
        LET query_lower == strip(lower(req.query))
            matching == { i \in 1..Len(intents) :
                            \/ PatternMatches(intents[i].type, query_lower)
                            \/ KeywordMatches(intents[i], query_lower) }
        IN res.intent = IF matching /= {} THEN intents[FirstOf(matching)].type
                        ELSE "unknown"

\* C7, amended: classify_intent visits the intents in descending priority
\* twice.  The first intent with a matching pattern wins; when no pattern of
\* any intent matches, the first intent with a matching keyword wins; else
\* the query is unknown.  So a pattern of a lower priority beats a keyword of
\* a higher one.
C7_PatternsThenKeywords ==
    req.op = "classify_intent" =>
        LET query_lower == strip(lower(req.query))
            byPattern == { i \in 1..Len(intents) :
                             PatternMatches(intents[i].type, query_lower) }
            byKeyword == { i \in 1..Len(intents) :
                             KeywordMatches(intents[i], query_lower) }
        IN res.intent = IF byPattern /= {} THEN intents[FirstOf(byPattern)].type
                        ELSE IF byKeyword /= {} THEN intents[FirstOf(byKeyword)].type
                        ELSE "unknown"

\* C7, its case: "hola cuántos" has a keyword of greeting (priority 3) and
\* matches a pattern of count_query (priority 2), and is a count_query.
C7_PatternBeatsKeyword ==
    /\ req.op = "classify_intent"
    /\ req.query = "hola cuántos"
    /\ KeywordMatches(intents[1], req.query)
    /\ ~PatternMatches("greeting", req.query)
    /\ PatternMatches("count_query", req.query)
    /\ intents[1].priority > intents[2].priority
    /\ res.intent = "count_query"

\* C8: extract_filters_from_query("tiendas control en la región este") is
\* exactly {experimento: "Control", region: "Este"}: no store type, no other key.
C8_ControlEste ==
    (req.op = "extract_filters" /\ req.query = "tiendas control en la región este") =>
        /\ { res.filters[i] : i \in 1..Len(res.filters) }
               = { <<"experimento", "Control">>, <<"region", "Este">> }
        /\ Len(res.filters) = 2

\* C8, its case: the filters of that query were extracted, with a region and
\* without a store type.
C8_ControlEsteExtracted ==
    /\ req.op = "extract_filters"
    /\ req.query = "tiendas control en la región este"
    /\ HasKey(res.filters, "region")
    /\ HasKey(res.filters, "experimento")
    /\ ~HasKey(res.filters, "tipo_tienda")

\* The region words and what each is capitalised.
RegionNames ==
    ("este" :> "Este") @@ ("norte" :> "Norte") @@ ("sur" :> "Sur") @@ ("oeste" :> "Oeste")

\* The keywords of the rules of extract_filters_from_query.
RuleKeywords ==
    {"control", "experimento", "variante", "este", "norte", "sur", "oeste",
     "mall", "street", "calle", "outlet"}

\* The words of a query: its lower-case text split at the blanks.
WordsOf(query) ==
    LET parts == split(lower(query), " ") IN { parts[i] : i \in 1..Len(parts) }

\* C9, as the specification states it: for every region r of este, norte,
\* sur, oeste, a query that names r and no other region word yields region =
\* r capitalised; a query with none of the rule keywords yields the empty
\* mapping; each field gets at most one value.
C9_RegionNamedIsRegionFound ==
    req.op = "extract_filters" =>
        /\ \A r \in DOMAIN RegionNames :
              WordsOf(req.query) \cap DOMAIN RegionNames = {r} =>
                  /\ HasKey(res.filters, "region")
                  /\ ValueOf(res.filters, "region") = RegionNames[r]
        /\ (\A k \in RuleKeywords : ~Contains(lower(req.query), k)) => res.filters = <<>>
        /\ \A i, j \in 1..Len(res.filters) :
              res.filters[i][1] = res.filters[j][1] => i = j

----------------------------------------------------------------------------
(* Properties of the analysis.                                              *)

\* The experiment groups of the rows, as sets.
GroupsOf(rows) == { rows[i].experimento : i \in 1..Len(rows) }

\* C10, as the specification states it: on every dataset with a control
\* group, analyze_ab_test_results returns a report with the metrics of every
\* distinct experiment group, control included; a dataset whose only group is
\* the control group has its report too.
C10_EveryGroupReported ==
    (req.op = "analyze_ab_test_results" /\ "Control" \in GroupsOf(data)) =>
        /\ res.raised = "None"
        /\ { res.report.groups[i] : i \in 1..Len(res.report.groups) }
               = {"control"} \cup (GroupsOf(data) \ {"Control"})

\* The rows of an experiment group.
GroupRows(rows, group) == SelectSeq(rows, LAMBDA r : r.experimento = group)

\* A column of the rows of a group, added up row by row.
RECURSIVE GroupTotal(_, _, _)
GroupTotal(rows, group, column) ==
    IF Len(rows) = 0 THEN 0
    ELSE (IF rows[1].experimento = group THEN rows[1][column] ELSE 0)
         + GroupTotal(Tail(rows), group, column)

\* The mean conversion rate and the total revenue of a group, as fractions.
RateOf(rows, group) ==
    Frac(GroupTotal(rows, group, "conversion_rate"), Len(GroupRows(rows, group)))

RevenueOf(rows, group) == Frac(GroupTotal(rows, group, "revenue"), 1)

\* The lift is the number 0.
ZeroLift(lift) == lift.den /= 0 /\ lift.num = 0

\* lift * control = (experiment - control) * 100, for numbers.
LiftEquation(lift, experiment, control) ==
    /\ lift.den /= 0
    /\ lift.num * control.num * experiment.den
         = lift.den * (experiment.num * control.den - control.num * experiment.den) * 100

\* A report of analyze_ab_test_results is at hand.
Analyzed == req.op = "analyze_ab_test_results" /\ res.raised = "None"

\* C11, as the specification states it: conversion_lift and revenue_lift are
\* 0 exactly when the control value is 0 (lift = 0 if and only if the control
\* value is 0), and otherwise (experiment - control) / control * 100.
C11_LiftZeroIffNoBaseline ==
    Analyzed =>
        \A i \in 1..Len(res.report.experiments) :
            LET e == res.report.experiments[i]
                control_rate == RateOf(data, "Control")
                control_revenue == RevenueOf(data, "Control")
            IN /\ ZeroLift(e.conversion_lift) <=> IsZero(control_rate)
               /\ ZeroLift(e.revenue_lift) <=> IsZero(control_revenue)
               /\ ~IsZero(control_rate) =>
                     LiftEquation(e.conversion_lift, RateOf(data, e.name), control_rate)
               /\ ~IsZero(control_revenue) =>
                     LiftEquation(e.revenue_lift, RevenueOf(data, e.name), control_revenue)

\* C11, amended: conversion_lift and revenue_lift are 0 whenever the control
\* value is 0, and otherwise, for a control value that is a number, equal
\* (experiment - control) / control * 100 -- which is 0 as well when the
\* experiment value equals the control value.
C11_LiftOfBaseline ==
    Analyzed =>
        \A i \in 1..Len(res.report.experiments) :
            LET e == res.report.experiments[i]
                control_rate == RateOf(data, "Control")
                control_revenue == RevenueOf(data, "Control")
            IN /\ IsZero(control_rate) => e.conversion_lift = Frac(0, 1)
               /\ IsZero(control_revenue) => e.revenue_lift = Frac(0, 1)
               /\ (~IsZero(control_rate) /\ ~IsNaN(control_rate)) =>
                     /\ LiftEquation(e.conversion_lift, RateOf(data, e.name), control_rate)
                     /\ ZeroLift(e.conversion_lift) <=>
                            LiftEquation(Frac(0, 1), RateOf(data, e.name), control_rate)
               /\ ~IsZero(control_revenue) =>
                     LiftEquation(e.revenue_lift, RevenueOf(data, e.name), control_revenue)

\* C11, its case: a control group without conversions and revenue, an
\* experiment with both, and both lifts 0.
C11_ZeroBaselineZeroLift ==
    /\ Analyzed
    /\ IsZero(RateOf(data, "Control"))
    /\ IsZero(RevenueOf(data, "Control"))
    /\ \E i \in 1..Len(res.report.experiments) :
          /\ ~IsZero(RateOf(data, res.report.experiments[i].name))
          /\ res.report.experiments[i].conversion_lift = Frac(0, 1)
          /\ res.report.experiments[i].revenue_lift = Frac(0, 1)

\* The segment value of the column has a control row, and a row of some other
\* group.
HasControlSide(rows, column, v) ==
    \E i \in 1..Len(rows) : rows[i][column] = v /\ rows[i].experimento = "Control"

HasExperimentSide(rows, column, v) ==
    \E i \in 1..Len(rows) : rows[i][column] = v /\ rows[i].experimento /= "Control"

\* The segments an analysis reports.
SegmentsOf(analysis) == { analysis[i].segment : i \in 1..Len(analysis) }

\* C12: for each distinct value of region and of store type, the segment is
\* reported if and only if it has at least one control record and at least
\* one record of any non-control group, whatever that group's name.
C12_SegmentOfAnyExperiment ==
    Analyzed =>
        /\ \A i \in 1..Len(data) :
              data[i].region \in SegmentsOf(res.report.regional_analysis)
                 <=> /\ HasControlSide(data, "region", data[i].region)
                     /\ HasExperimentSide(data, "region", data[i].region)
        /\ \A i \in 1..Len(data) :
              data[i].tipo_tienda \in SegmentsOf(res.report.store_type_analysis)
                 <=> /\ HasControlSide(data, "tipo_tienda", data[i].tipo_tienda)
                     /\ HasExperimentSide(data, "tipo_tienda", data[i].tipo_tienda)

\* The first row of a group in the dataset.
FirstRowOf(rows, group) ==
    CHOOSE i \in 1..Len(rows) :
        /\ rows[i].experimento = group
        /\ \A j \in 1..(i - 1) : rows[j].experimento /= group

\* The conversion lift the report gives for a group.
LiftOf(report, group) ==
    (CHOOSE e \in { report.experiments[i] : i \in 1..Len(report.experiments) } :
        e.name = group).conversion_lift

\* The non-control groups of the dataset.
NonControlGroups(rows) ==
    { rows[i].experimento : i \in 1..Len(rows) } \ {"Control"}

\* C13: the best experiment of the summary is a non-control group of the
\* dataset, no group has a greater conversion_lift, and of the groups with
\* the same conversion_lift it is the one first encountered in the dataset.
C13_BestIsFirstMaximum ==
    Analyzed =>
        LET best == res.report.summary.best_experiment
        IN /\ best \in NonControlGroups(data)
           /\ res.report.summary.best_lift = LiftOf(res.report, best)
           /\ \A g \in NonControlGroups(data) :
                 /\ ~Greater(LiftOf(res.report, g), LiftOf(res.report, best))
                 /\ LiftOf(res.report, g) = LiftOf(res.report, best)
                       => FirstRowOf(data, best) <= FirstRowOf(data, g)

\* C13, its case: two groups tie on the greatest lift, and the best experiment
\* is the one of them that comes first in the dataset, here Experimento_C
\* before Experimento_A.
C13_TieGoesToFirst ==
    /\ Analyzed
    /\ res.report.summary.best_experiment = "Experimento_C"
    /\ "Experimento_A" \in NonControlGroups(data)
    /\ LiftOf(res.report, "Experimento_A") = res.report.summary.best_lift
    /\ ~IsNaN(res.report.summary.best_lift)
    /\ FirstRowOf(data, "Experimento_C") < FirstRowOf(data, "Experimento_A")

\* C14: the summary lists the non-control groups ranked by conversion_lift in
\* descending order: a group with a higher lift always appears before a group
\* with a lower lift.
C14_SummaryRankedByLift ==
    Analyzed =>
        \A i, j \in 1..Len(res.report.summary.lines) :
            Greater(res.report.summary.lines[i].conversion_lift,
                    res.report.summary.lines[j].conversion_lift) => i < j

\* C15: on a dataset without a record of the control group,
\* analyze_ab_test_results fails and returns no report: it never returns a
\* report computed against an absent control partition.
C15_NoControlNoReport ==
    (/\ req.op = "analyze_ab_test_results"
     /\ Len(GroupRows(data, "Control")) = 0)
        => /\ res.raised /= "None"
           /\ res.report = NoReport

\* The significance test of a group is rejected.
TestFails(rows, group) ==
    ContingencyRaises(GroupRows(rows, "Control"), GroupRows(rows, group))

\* C16: a failure of the significance test for one experiment group is not
\* fatal: on a dataset with control records, analyze_ab_test_results still
\* returns the results of every group whose own test does not fail.
C16_UnaffectedGroupsReported ==
    (/\ req.op = "analyze_ab_test_results"
     /\ Len(GroupRows(data, "Control")) > 0) =>
        \A g \in NonControlGroups(data) :
            ~TestFails(data, g) =>
                /\ res.raised = "None"
                /\ \E i \in 1..Len(res.report.experiments) :
                      res.report.experiments[i].name = g

\* What a fresh analyze_ab_test_results on the records of the instance returns.
FreshAnalysis == analyze_ab_test_results(data)

\* The memoized report is the report of a fresh analysis; a call of
\* get_ab_analysis that succeeds returns it and has it memoized; a direct
\* analysis made after the memoization returns the same report.
MemoIsFresh ==
    /\ cache /= NoReport =>
          FreshAnalysis.raised = "None" /\ cache = FreshAnalysis.report
    /\ (req.op = "get_ab_analysis" /\ res.raised = "None") =>
          res.report = FreshAnalysis.report /\ cache = res.report
    /\ (req.op = "analyze_ab_test_results" /\ cache /= NoReport) =>
          res.raised = "None" /\ res.report = cache

ApologyPrefix == "Lo siento, ocurrió un error al procesar tu consulta: "

IsApology(response) ==
    /\ Len(response) >= Len(ApologyPrefix)
    /\ SubSeq(response, 1, Len(ApologyPrefix)) = ApologyPrefix

\* A call of generate_response has returned normally: no exception left it,
\* and its answer is a text.
ReturnedText == res.raised = "None" /\ res.response /= ""

\* C18: a failure of the generator call, or of a step of the pipeline (here
\* the analysis), never leaves generate_response: the call returns a text,
\* which is the apology when a step failed and the router's answer or the
\* completion otherwise, and the instance keeps its records for the next
\* query.
C18_FailureIsApology ==
    /\ [](req.op = "generate_response" =>
            /\ ReturnedText
            /\ IF res.answer /= None /\ res.answer[1] /= ""
               THEN res.response = res.answer[1]
               ELSE IF "openai" \notin Called
               THEN /\ FreshAnalysis.raised /= "None"
                    /\ IsApology(res.response)
               ELSE \E completion \in GeneratorOutcomes :
                       IF completion.raised = "None"
                       THEN res.response = completion.content
                       ELSE IsApology(res.response))
    /\ [][req.op = "generate_response" =>
             /\ req' = NoReq
             /\ data' = data
             /\ cache' = cache]_vars

\* C18, its case: the generator call raised and generate_response returned
\* the apology with the text of the error.
C18_GeneratorFailedApology ==
    /\ req.op = "generate_response"
    /\ "openai" \in Called
    /\ res.raised = "None"
    /\ IsApology(res.response)
    /\ res.response = ApologyPrefix \o "Error generando respuesta: (the error)"

\* C19: loading fails when a row has conversions > users, so that no record
\* store holding such a row is ever constructed: every row of the loaded
\* records has conversiones <= usuarios.
C19_NoRowConvertsMoreThanItsUsers ==
    \A i \in 1..Len(data) : data[i].conversiones <= data[i].usuarios

\* C20: the record identifier round-trips.  For every hit of a search, the
\* experiment group and the store id that _format_results recovers from the
\* id built by prepare_documents are those of the record the id was built
\* from, also when they contain underscores.
C20_RecordIdRoundTrips ==
    req.op \in {"semantic_search", "filter_search"} =>
        \A i \in 1..Len(res.results) :
            \A d \in 1..Len(Indexed) :
                Indexed[d].id = res.entries[i].id =>
                    /\ res.results[i].data.experimento = Indexed[d].row.experimento
                    /\ res.results[i].data.tienda_id = Indexed[d].row.tienda_id

\* The indexed record a hit of the index stands for.
RecordOf(entry) ==
    (CHOOSE doc \in { Indexed[d] : d \in 1..Len(Indexed) } : doc.id = entry.id).row

\* C21: filter_search returns at most 20 results, and every result it
\* returns is a record that satisfies every field equality that was passed in.
C21_FilterSearchCappedAndMatching ==
    req.op = "filter_search" =>
        /\ Len(res.results) <= 20
        /\ \A i \in 1..Len(res.results) :
              \A k \in 1..Len(req.filters) :
                  /\ req.filters[k][1] \in Columns
                  /\ RecordOf(res.entries[i])[req.filters[k][1]] = req.filters[k][2]

\* The call was made with a filter on a field the schema does not have.
UnknownFieldPassed ==
    \E k \in 1..Len(req.filters) : req.filters[k][1] \notin SchemaFields

\* C22: semantic_search, filter_search and get_top_performers reject a filter
\* that names a field not in the record schema: the call raises and returns
\* no records; the filter is never skipped silently.
C22_UnknownFieldRejected ==
    (/\ req.op \in {"semantic_search", "filter_search", "get_top_performers"}
     /\ UnknownFieldPassed)
        => /\ res.raised \notin {"", "None"}
           /\ res.results = <<>>

\* C23: no query operation inserts, deletes or modifies a record: over every
\* step of every sequence of calls, successful or failing, the records loaded
\* at startup and the indexed documents stay what they were.
C23_RecordsNeverChange ==
    [][data' = data /\ Indexed' = Indexed]_vars

\* C23, its case: a query has failed (generate_response apologised) on an
\* instance whose dataset file was rewritten meanwhile, and the indexed
\* documents are still those of the records in memory.
C23_FailedQueryLeftRecords ==
    /\ req.op = "generate_response"
    /\ IsApology(res.response)
    /\ disk /= data
    /\ Len(Indexed) = Len(data)

\* Every report a chatbot holds or has returned is the analysis of its own
\* records.
ReportsAreOwn ==
    /\ cache /= NoReport => cache = analyze_ab_test_results(data).report
    /\ (req.op = "get_ab_analysis" /\ res.raised = "None") =>
          res.report = analyze_ab_test_results(data).report
    /\ peer.cache /= NoReport => peer.cache = analyze_ab_test_results(peer.data).report
    /\ peer.report /= NoReport => peer.report = analyze_ab_test_results(peer.data).report

\* C24: the memoized report is instance-local.  With two chatbots calling
\* get_ab_analysis in any interleaving, each one's report is the analysis of
\* its own records, and a call on one never writes the cache of the other.
C24_CacheIsInstanceLocal ==
    /\ []ReportsAreOwn
    /\ [][/\ cache' /= cache => peer' = peer
          /\ peer' /= peer => cache' = cache]_vars

\* C24, its case: both chatbots hold a memoized report, the two reports
\* differ, and the first has just been handed its own.
C24_TwoCachesTwoReports ==
    /\ req.op = "get_ab_analysis"
    /\ res.report = cache
    /\ cache /= NoReport
    /\ peer.cache /= NoReport
    /\ peer.cache /= cache

----------------------------------------------------------------------------
(* Properties of the handlers.                                              *)

\* The answer of the greeting handler.
GreetingAnswer ==
    Some("¡Hola! Estoy aquí para ayudarte con el análisis de AB Testing. "
         \o "¿Qué te gustaría saber sobre los datos?")

\* C25: a query classified as a greeting is answered with the greeting
\* string if and only if its stripped length is at most 15 characters; a
\* longer one makes route_query return None: no other handler answers it.
C25_ShortGreetingsAnswered ==
    (req.op = "route_query" /\ res.intent = "greeting") =>
        IF Len(strip(req.query)) <= 15
        THEN res.answer = GreetingAnswer
        ELSE res.answer = None

\* C25, its case: a greeting of exactly 15 characters between blanks is
\* answered, after the blanks are stripped.
C25_FifteenCharactersAnswered ==
    /\ req.op = "route_query"
    /\ req.query = "  Hola, que tal??  "
    /\ Len(strip(req.query)) = 15
    /\ res.intent = "greeting"
    /\ res.answer = GreetingAnswer

\* The text begins with the words.
BeginsWith(text, words) ==
    Len(text) >= Len(words) /\ SubSeq(text, 1, Len(words)) = words

\* C26: a query that contains a store identifier T_(Control|Experimento_[ABC])_ddd,
\* in any letter case, is classified as the store-id intent and answered by
\* the handler: with the fields of the record when the query names the
\* tienda_id of a record, with the not-found message otherwise; never None.
C26_StoreIdAlwaysAnswered ==
    (req.op = "route_query" /\ StoreIdPattern(req.query, TRUE)) =>
        /\ res.intent = "store_id_query"
        /\ res.answer /= None
        /\ IF \E i \in 1..Len(data) : Contains(req.query, data[i].tienda_id)
           THEN BeginsWith(res.answer[1], "Datos de la tienda ")
           ELSE BeginsWith(res.answer[1], "No se encontraron datos para la tienda ")

----------------------------------------------------------------------------
(* Properties of the pipeline.                                              *)

\* C27: get_top_performers ranks the records loaded at startup: in every
\* state, also after the dataset file has changed, every record it returns
\* is one of the records that the analysis and the router of the chatbot use.
C27_PerformersAreLoadedRecords ==
    req.op = "get_top_performers" =>
        \A i \in 1..Len(res.results) :
            \E j \in 1..Len(data) : res.results[i] = PerformerResult(data[j])

\* C28: semantic_search is limit-bounded.  For every requested limit, 0
\* included, the result has at most that many entries; only when no limit is
\* passed is the configured default limit used.
C28_SemanticSearchLimitBounded ==
    req.op = "semantic_search" =>
        Len(res.results) <= (IF req.limit = NoLimit THEN default_limit ELSE req.limit)

\* The performance keywords of the pipeline.
PerformanceKeywords ==
    <<"mayor", "menor", "máximo", "mínimo", "mejor", "peor", "top", "ranking",
      "más alto", "más bajo", "highest", "lowest", "best", "worst", "máx", "mín">>

\* The steps of the pipeline for a fall-through query, in their order, up to
\* the analysis.
StepsOf(query, filters) ==
    <<"route_query", "extract_filters_from_query">>
    \o (IF ContainsAny(lower(query), PerformanceKeywords)
        THEN <<"get_top_performers">> ELSE <<>>)
    \o <<"semantic_search">>
    \o (IF filters /= <<>> THEN <<"filter_search">> ELSE <<>>)
    \o <<"get_ab_analysis">>

\* The smaller of two numbers.
Min(a, b) == IF a < b THEN a ELSE b

\* A call of generate_response on a query the router did not answer.
FellThrough ==
    /\ req.op = "generate_response"
    /\ ~(res.answer /= None /\ res.answer[1] /= "")

----------------------------------------------------------------------------
(* Properties of the count and the dataset-info handlers.                   *)

\* The query mentions stores and users; the query names a counter (the users
\* counter also in English).
MentionsStoresAndUsers(q) ==
    /\ (Contains(q, "tienda") \/ Contains(q, "store"))
    /\ (Contains(q, "usuario") \/ Contains(q, "user"))

Names(q, counter) ==
    Contains(q, counter) \/ (counter = "usuarios" /\ Contains(q, "user"))

\* The counter the query selects: the first of usuarios, conversiones,
\* tiendas, regiones, tipos that it names, "none" when it names none.
SelectedCounter(q) ==
    IF Names(q, "usuarios") THEN "usuarios"
    ELSE IF Names(q, "conversiones") THEN "conversiones"
    ELSE IF Names(q, "tiendas") THEN "tiendas"
    ELSE IF Names(q, "regiones") THEN "regiones"
    ELSE IF Names(q, "tipos") THEN "tipos"
    ELSE "none"

\* The answers of the counter on the records of the chatbot.
CounterAnswers(counter, q) ==
    LET summary == get_data_summary(data)
    IN CASE counter = "combined" -> { _count_stores_and_users(q, summary, data) }
         [] counter = "usuarios" -> { _count_users(q, summary, data) }
         [] counter = "conversiones" -> { _count_conversions(q, summary, data) }
         [] counter = "tiendas" ->
               { _count_stores(q, summary, data, c) :
                   c \in value_counts(WhereNe(data, "experimento", "Control")) }
         [] counter = "regiones" -> { _count_regions(q, summary) }
         [] counter = "tipos" -> { _count_store_types(q, summary) }
         [] counter = "none" ->
               { "El dataset contiene " \o str(summary.total_records) \o " tiendas con "
                 \o FormatThousands(summary.total_users) \o " usuarios y "
                 \o FormatThousands(summary.total_conversions) \o " conversiones en total." }

====
